---- MODULE Spec2Model ----
(***************************************************************************)
(* Model of pkg/dsl/definition/template.go: the workload and trait        *)
(* definition renderers (Complete), their HealthCheck / Status calls, the  *)
(* template-context builders and the live-resource resolver               *)
(* getResourceFromObj.                                                     *)
(*                                                                         *)
(* Every exported method is one atomic action.  The variable ret holds     *)
(* the record of the call that has just run (its inputs, the context it    *)
(* started from, and what it returned); the action Return hands the        *)
(* result to the caller and makes the engine callable again.               *)
(***************************************************************************)
EXTENDS Integers, Sequences, FiniteSets, TLC

VARIABLES base, auxiliaries, ret

vars == <<base, auxiliaries, ret>>

(***************************************************************************)
(* Bounds.                                                                 *)
(***************************************************************************)
\* the largest number of fields of an `outputs` struct
MaxFields == 2
\* the largest number of Auxiliaries a context accumulates over a pipeline
MaxAux == 2
\* the largest number of live objects of a cluster handed to the resolver
MaxObjs == 2

(***************************************************************************)
(* Constants of template.go and of package oam.                            *)
(***************************************************************************)
AuxiliaryWorkload == "AuxiliaryWorkload"

LabelAppName == "app.oam.dev/name"
LabelAppComponent == "app.oam.dev/component"
LabelOAMResourceType == "app.oam.dev/resourceType"
ResourceTypeWorkload == "WORKLOAD"
TraitTypeLabel == "trait.oam.dev/type"
TraitResource == "trait.oam.dev/resource"

EmptyMap == [k \in {} |-> ""]

\* util.MergeMapOverrideWithDst: a fresh map, src first, dst wins on a clash
MergeMapOverrideWithDst(src, dst) == dst @@ src

(***************************************************************************)
(* cue values, as far as the renderers look at them: a value is absent     *)
(* (Lookup found nothing), cannot be wrapped into the object model, or is  *)
(* an object with a kind and a metadata.name ("" = not set).               *)
(***************************************************************************)
Absent == [tag |-> "absent", kind |-> "", name |-> ""]
Bad == [tag |-> "bad", kind |-> "", name |-> ""]
Obj(k, n) == [tag |-> "obj", kind |-> k, name |-> n]

Exists(v) == v.tag # "absent"

\* the nil model.Instance of a context on which SetBase never ran
NoBase == [tag |-> "nil", kind |-> "", name |-> ""]

\* model.NewBase / model.NewOther: (Instance, error)
NewBase(v) == [err |-> v.tag # "obj", ins |-> v]
NewOther(v) == [err |-> v.tag # "obj", ins |-> v]

\* Instance.Unstructured(): the symbolic object (group-version-kind, name)
Unstructured(ins) == [kind |-> ins.kind, name |-> ins.name]

\* unification of one field: "" is the unconstrained value
UnifyField(a, b) == IF a = "" THEN b ELSE a
FieldConflict(a, b) == a # "" /\ b # "" /\ a # b

\* Instance.Unify(other): the receiver is replaced by the unified value;
\* a conflict is an error and leaves the receiver as it was
Unify(b, p) ==
    IF FieldConflict(b.kind, p.kind) \/ FieldConflict(b.name, p.name)
    THEN [err |-> TRUE, ins |-> b]
    ELSE [err |-> FALSE,
          ins |-> Obj(UnifyField(b.kind, p.kind), UnifyField(b.name, p.name))]

(***************************************************************************)
(* process.Context: the Base and the ordered Auxiliaries.                  *)
(***************************************************************************)
Ctx(b, aux) == [base |-> b, auxiliaries |-> aux]
SetBase(ctx, b) == [ctx EXCEPT !.base = b]
PutAuxiliaries(ctx, a) == [ctx EXCEPT !.auxiliaries = Append(@, a)]
Auxiliary(ins, type, name, isOutputs) ==
    [Ins |-> ins, Type |-> type, Name |-> name, IsOutputs |-> isOutputs]

\* ctx.BaseContextLabels()
BaseContextLabels == [appName |-> "myapp", name |-> "comp", appRevision |-> "v1"]

(***************************************************************************)
(* Evaluated templates.  err is the outcome of assembling and evaluating   *)
(* the instance; processing that of the pre-process task; output, outputs  *)
(* and patch are what Lookup finds in the (processed) instance.            *)
(***************************************************************************)
FieldInfo(n, d, h, o, v) ==
    [Name |-> n, IsDefinition |-> d, IsHidden |-> h, IsOptional |-> o, Value |-> v]

NotStruct == [isStruct |-> FALSE, fields |-> <<>>]
Struct(fs) == [isStruct |-> TRUE, fields |-> fs]

Template(e, pr, out, outs, p) ==
    [err |-> e, processing |-> pr, output |-> out, outputs |-> outs, patch |-> p]

(***************************************************************************)
(* workloadDef.Complete                                                    *)
(***************************************************************************)
Result(ctx, err, k) == [ctx |-> ctx, err |-> err, k |-> k]

\* line 107 with the IsOptional test forgotten
workloadSkipsButOptional(fieldInfo) == fieldInfo.IsDefinition \/ fieldInfo.IsHidden

\* line 107: the fields the outputs loop passes over
workloadSkips(fieldInfo) ==
    fieldInfo.IsDefinition \/ fieldInfo.IsHidden \/ fieldInfo.IsOptional

RECURSIVE workloadOutputsLoop(_, _, _)
workloadOutputsLoop(ctx, fields, i) ==
    IF i > Len(fields) THEN Result(ctx, "", 0)
    ELSE LET fieldInfo == fields[i] IN
         IF workloadSkips(fieldInfo)
         THEN workloadOutputsLoop(ctx, fields, i + 1)
         ELSE LET other == NewOther(fieldInfo.Value) IN
              IF other.err THEN Result(ctx, "outputs", i)
              ELSE workloadOutputsLoop(
                       PutAuxiliaries(ctx, Auxiliary(other.ins, AuxiliaryWorkload,
                                                     fieldInfo.Name, TRUE)),
                       fields, i + 1)

\* a Complete that restores the context it started from when it fails
workloadDef_CompleteAtomic(ctx, tpl) ==
    IF tpl.err = "build" THEN Result(ctx, "build", 0)
    ELSE IF tpl.err = "eval" THEN Result(ctx, "eval", 0)
    ELSE LET b == NewBase(tpl.output) IN
         IF b.err THEN Result(ctx, "new base", 0)
         ELSE LET r == IF tpl.outputs.isStruct
                       THEN workloadOutputsLoop(SetBase(ctx, b.ins), tpl.outputs.fields, 1)
                       ELSE Result(SetBase(ctx, b.ins), "", 0) IN
              IF r.err # "" THEN Result(ctx, r.err, r.k) ELSE r

workloadDef_Complete(ctx, tpl) ==
    IF tpl.err = "build" THEN Result(ctx, "build", 0)
    ELSE IF tpl.err = "eval" THEN Result(ctx, "eval", 0)
    ELSE LET b == NewBase(tpl.output) IN
         IF b.err THEN Result(ctx, "new base", 0)
         ELSE LET ctx1 == SetBase(ctx, b.ins) IN
              IF tpl.outputs.isStruct
              THEN workloadOutputsLoop(ctx1, tpl.outputs.fields, 1)
              ELSE Result(ctx1, "", 0)

(***************************************************************************)
(* traitDef.Complete                                                       *)
(***************************************************************************)
\* line 295
traitSkips(fieldInfo) ==
    fieldInfo.IsDefinition \/ fieldInfo.IsHidden \/ fieldInfo.IsOptional

RECURSIVE traitOutputsLoop(_, _, _, _)
traitOutputsLoop(name, ctx, fields, i) ==
    IF i > Len(fields) THEN Result(ctx, "", 0)
    ELSE LET fieldInfo == fields[i] IN
         IF traitSkips(fieldInfo)
         THEN traitOutputsLoop(name, ctx, fields, i + 1)
         ELSE LET other == NewOther(fieldInfo.Value) IN
              IF other.err THEN Result(ctx, "outputs", i)
              ELSE traitOutputsLoop(name,
                       PutAuxiliaries(ctx, Auxiliary(other.ins, name,
                                                     fieldInfo.Name, TRUE)),
                       fields, i + 1)

\* lines 281-288 installing the output as the Base, as the workload renderer does
traitOutputAsBase(name, ctx, tpl) ==
    IF Exists(tpl.output)
    THEN LET other == NewOther(tpl.output) IN
         IF other.err THEN Result(ctx, "new Assist", 0)
         ELSE Result(SetBase(PutAuxiliaries(ctx, Auxiliary(other.ins, name, "", FALSE)),
                             other.ins), "", 0)
    ELSE Result(ctx, "", 0)

\* lines 281-288: the singular output becomes an Auxiliary
traitOutput(name, ctx, tpl) ==
    IF Exists(tpl.output)
    THEN LET other == NewOther(tpl.output) IN
         IF other.err THEN Result(ctx, "new Assist", 0)
         ELSE Result(PutAuxiliaries(ctx, Auxiliary(other.ins, name, "", FALSE)), "", 0)
    ELSE Result(ctx, "", 0)

\* lines 306-316: base, _ := ctx.Output(); base.Unify(p).  The second value
\* of Output is the Auxiliary list; a nil Base is dereferenced.
traitPatch(name, ctx, tpl) ==
    IF Exists(tpl.patch)
    THEN LET p == NewOther(tpl.patch) IN
         IF p.err THEN Result(ctx, "patcher NewOther", 0)
         ELSE IF ctx.base = NoBase THEN Result(ctx, "panic", 0)
         ELSE LET u == Unify(ctx.base, p.ins) IN
              IF u.err THEN Result(ctx, "unify", 0)
              ELSE Result(SetBase(ctx, u.ins), "", 0)
    ELSE Result(ctx, "", 0)

traitDef_Complete(name, ctx, tpl) ==
    IF tpl.err = "build" THEN Result(ctx, "build", 0)
    ELSE IF tpl.err = "eval" THEN Result(ctx, "eval", 0)
    ELSE IF tpl.processing = "fail" THEN Result(ctx, "processing", 0)
    ELSE LET r1 == traitOutput(name, ctx, tpl) IN
         IF r1.err # "" THEN r1
         ELSE LET r2 == IF tpl.outputs.isStruct
                        THEN traitOutputsLoop(name, r1.ctx, tpl.outputs.fields, 1)
                        ELSE r1 IN
              IF r2.err # "" THEN r2
              ELSE traitPatch(name, r2.ctx, tpl)

(***************************************************************************)
(* The cluster behind client.Reader: ok = FALSE is a cluster every read of *)
(* which fails; items are the live objects in the order a List returns     *)
(* them.  A live object's stored fields are the record itself.             *)
(***************************************************************************)
LiveObject(k, namespace, n, l) == [kind |-> k, ns |-> namespace, name |-> n, labels |-> l]
NoObject == LiveObject("", "", "", EmptyMap)
Cluster(ok, items) == [ok |-> ok, items |-> items]

\* v.GetLabels()[key]: "" for a label the object does not carry
GetLabel(o, key) == IF key \in DOMAIN o.labels THEN o.labels[key] ELSE ""

\* client.MatchingLabels
MatchingLabels(o, labels) ==
    \A key \in DOMAIN labels : key \in DOMAIN o.labels /\ o.labels[key] = labels[key]

\* util.GetObjectGivenGVKAndName
GetObjectGivenGVKAndName(cli, gvk, namespace, n) ==
    IF ~cli.ok THEN [err |-> "unavailable", object |-> NoObject]
    ELSE LET hits == {i \in 1..Len(cli.items) :
                         /\ cli.items[i].kind = gvk
                         /\ cli.items[i].ns = namespace
                         /\ cli.items[i].name = n} IN
         IF hits = {} THEN [err |-> "not found", object |-> NoObject]
         ELSE [err |-> "", object |-> cli.items[CHOOSE i \in hits : TRUE]]

\* util.GetObjectsGivenGVKAndLabels
GetObjectsGivenGVKAndLabels(cli, gvk, namespace, labels) ==
    IF ~cli.ok THEN [err |-> "unavailable", items |-> <<>>]
    ELSE LET Selected(o) == o.kind = gvk /\ o.ns = namespace /\ MatchingLabels(o, labels) IN
         [err |-> "", items |-> SelectSeq(cli.items, Selected)]

(***************************************************************************)
(* getResourceFromObj.  Besides (object, err) the result records the label *)
(* set the call ended with, the list it got and the reads it made.         *)
(***************************************************************************)
Resolved(err, gvk, object, labels, list, listed, reads) ==
    [err |-> err, gvk |-> gvk, object |-> object, labels |-> labels,
     list |-> list, listed |-> listed, reads |-> reads]

\* lines 402-406 keeping the last match instead of returning at the first
LastMatch(items, outputsResource) ==
    LET hits == {i \in 1..Len(items) : GetLabel(items[i], TraitResource) = outputsResource} IN
    IF hits = {} THEN 0 ELSE CHOOSE i \in hits : \A j \in hits : i >= j

\* lines 402-406: the first listed item whose trait-resource label matches
FirstMatch(items, outputsResource) ==
    LET hits == {i \in 1..Len(items) : GetLabel(items[i], TraitResource) = outputsResource} IN
    IF hits = {} THEN 0 ELSE CHOOSE i \in hits : \A j \in hits : i <= j

\* lines 385-387 left out: the listing selector is the label set as given
resourceLabelsUnqualified(labels, outputsResource) == labels

\* lines 385-387
resourceLabels(labels, outputsResource) ==
    IF outputsResource # ""
    THEN (TraitResource :> outputsResource) @@ labels
    ELSE labels

\* a resolver that goes on to the label listing when the named fetch fails
getResourceFromObjFallback(obj, cli, namespace, labels, outputsResource) ==
    LET labels1 == resourceLabels(labels, outputsResource)
        u == GetObjectGivenGVKAndName(cli, obj.kind, namespace, obj.name)
        list == GetObjectsGivenGVKAndLabels(cli, obj.kind, namespace, labels1)
        m == FirstMatch(list.items, outputsResource) IN
    IF obj.name # "" /\ u.err = ""
    THEN Resolved("", obj.kind, u.object, labels1, <<>>, FALSE, 1)
    ELSE IF list.err # "" THEN Resolved(list.err, obj.kind, NoObject, labels1, <<>>, FALSE, 1)
    ELSE IF Len(list.items) = 1
    THEN Resolved("", obj.kind, list.items[1], labels1, list.items, TRUE, 1)
    ELSE IF m # 0 THEN Resolved("", obj.kind, list.items[m], labels1, list.items, TRUE, 1)
    ELSE Resolved("no resources found", obj.kind, NoObject, labels1, list.items, TRUE, 1)

getResourceFromObj(obj, cli, namespace, labels, outputsResource) ==
    LET labels1 == resourceLabels(labels, outputsResource) IN
    IF obj.name # ""
    THEN LET u == GetObjectGivenGVKAndName(cli, obj.kind, namespace, obj.name) IN
         Resolved(u.err, obj.kind, u.object, labels1, <<>>, FALSE, 1)
    ELSE LET list == GetObjectsGivenGVKAndLabels(cli, obj.kind, namespace, labels1) IN
         IF list.err # "" THEN Resolved(list.err, obj.kind, NoObject, labels1, <<>>, FALSE, 1)
         ELSE IF Len(list.items) = 1
         THEN Resolved("", obj.kind, list.items[1], labels1, list.items, TRUE, 1)
         ELSE LET m == FirstMatch(list.items, outputsResource) IN
              IF m # 0 THEN Resolved("", obj.kind, list.items[m], labels1, list.items, TRUE, 1)
              ELSE Resolved("no resources found", obj.kind, NoObject, labels1, list.items, TRUE, 1)

(***************************************************************************)
(* getTemplateContext of both renderers.  The result records, besides      *)
(* (root, err), the number of cluster reads and the indices of the         *)
(* Auxiliaries the loop got past its Type filter with.                     *)
(***************************************************************************)
\* lines 123-133 / 322-332
commonLabelsOf(l) ==
    [key \in {LabelAppName : x \in {"appName"} \cap DOMAIN l}
          \cup {LabelAppComponent : x \in {"name"} \cap DOMAIN l} |->
        IF key = LabelAppName THEN l["appName"] ELSE l["name"]]

Root(l, output, outputs) == [labels |-> l, output |-> output, outputs |-> outputs]
Built(err, root, reads, processed) ==
    [err |-> err, root |-> root, reads |-> reads, processed |-> processed]

\* lines 167-169 / 350-352 adding the entry to the mapping already there
setOutputsMerged(root, n, object) == [root EXCEPT !.outputs = (n :> object) @@ @]

\* lines 167-169 / 350-352: the assignment to root[OutputsFieldName]
setOutputs(root, n, object) == [root EXCEPT !.outputs = (n :> object)]

RECURSIVE workloadAssists(_, _, _, _, _)
workloadAssists(assists, i, cli, namespace, acc) ==
    IF i > Len(assists) THEN acc
    ELSE LET assist == assists[i] IN
         IF assist.Type # AuxiliaryWorkload
         THEN workloadAssists(assists, i + 1, cli, namespace, acc)
         ELSE IF assist.Name = ""
         THEN Built("config", acc.root, acc.reads, Append(acc.processed, i))
         ELSE LET r == getResourceFromObj(Unstructured(assist.Ins), cli, namespace,
                           MergeMapOverrideWithDst(TraitTypeLabel :> AuxiliaryWorkload,
                                                   commonLabelsOf(acc.root.labels)),
                           assist.Name) IN
              IF r.err # ""
              THEN Built(r.err, acc.root, acc.reads + r.reads, Append(acc.processed, i))
              ELSE workloadAssists(assists, i + 1, cli, namespace,
                       Built("", setOutputs(acc.root, assist.Name, r.object),
                             acc.reads + r.reads, Append(acc.processed, i)))

workloadDef_getTemplateContext(ctx, cli, namespace) ==
    LET root == Root(BaseContextLabels, NoObject, EmptyMap) IN
    IF ctx.base = NoBase THEN Built("panic", root, 0, <<>>)
    ELSE LET r == getResourceFromObj(Unstructured(ctx.base), cli, namespace,
                      MergeMapOverrideWithDst(LabelOAMResourceType :> ResourceTypeWorkload,
                                              commonLabelsOf(BaseContextLabels)),
                      "") IN
         IF r.err # "" THEN Built(r.err, root, r.reads, <<>>)
         ELSE workloadAssists(ctx.auxiliaries, 1, cli, namespace,
                  Built("", [root EXCEPT !.output = r.object], r.reads, <<>>))

RECURSIVE traitAssists(_, _, _, _, _, _)
traitAssists(name, assists, i, cli, namespace, acc) ==
    IF i > Len(assists) THEN acc
    ELSE LET assist == assists[i] IN
         IF assist.Type # name
         THEN traitAssists(name, assists, i + 1, cli, namespace, acc)
         ELSE LET r == getResourceFromObj(Unstructured(assist.Ins), cli, namespace,
                           MergeMapOverrideWithDst(TraitTypeLabel :> assist.Type,
                                                   commonLabelsOf(acc.root.labels)),
                           assist.Name) IN
              IF r.err # ""
              THEN Built(r.err, acc.root, acc.reads + r.reads, Append(acc.processed, i))
              ELSE traitAssists(name, assists, i + 1, cli, namespace,
                       Built("",
                             IF assist.IsOutputs
                             THEN setOutputs(acc.root, assist.Name, r.object)
                             ELSE [acc.root EXCEPT !.output = r.object],
                             acc.reads + r.reads, Append(acc.processed, i)))

traitDef_getTemplateContext(name, ctx, cli, namespace) ==
    traitAssists(name, ctx.auxiliaries, 1, cli, namespace,
                 Built("", Root(BaseContextLabels, NoObject, EmptyMap), 0, <<>>))

(***************************************************************************)
(* checkHealth / getStatusMessage: the policy templates the model knows    *)
(* and what their isHealth / message field evaluates to over the context.  *)
(***************************************************************************)
HealthTrue == "isHealth: true"
HealthNameIsX == "isHealth: context.output.metadata.name == \"x\""
MessageOk == "message: \"ok\""
MessageName == "message: context.output.metadata.name"

checkHealth(templateContext, healthPolicyTemplate) ==
    IF healthPolicyTemplate = HealthTrue THEN [healthy |-> TRUE, err |-> ""]
    ELSE IF healthPolicyTemplate = HealthNameIsX /\ templateContext.output # NoObject
    THEN [healthy |-> templateContext.output.name = "x", err |-> ""]
    ELSE [healthy |-> FALSE, err |-> "evaluate health status"]

getStatusMessage(templateContext, customStatusTemplate) ==
    IF customStatusTemplate = MessageOk THEN [message |-> "ok", err |-> ""]
    ELSE IF customStatusTemplate = MessageName /\ templateContext.output # NoObject
    THEN [message |-> templateContext.output.name, err |-> ""]
    ELSE [message |-> "", err |-> "evaluate message"]

(***************************************************************************)
(* HealthCheck and Status of both renderers.                               *)
(***************************************************************************)
Verdict(healthy, message, err, built) ==
    [healthy |-> healthy, message |-> message, err |-> err, built |-> built]
NotBuilt == [called |-> FALSE, err |-> "", reads |-> 0, processed |-> <<>>,
             root |-> Root(EmptyMap, NoObject, EmptyMap)]
Called(b) == [called |-> TRUE, err |-> b.err, reads |-> b.reads,
              processed |-> b.processed, root |-> b.root]

\* HealthCheck without the test of lines 176-178
workloadDef_HealthCheckAlwaysBuilds(ctx, cli, namespace, healthPolicyTemplate) ==
    LET b == workloadDef_getTemplateContext(ctx, cli, namespace) IN
    IF b.err # "" THEN Verdict(FALSE, "", b.err, Called(b))
    ELSE LET h == checkHealth(b.root, healthPolicyTemplate) IN
         Verdict(h.healthy, "", h.err, Called(b))

workloadDef_HealthCheck(ctx, cli, namespace, healthPolicyTemplate) ==
    IF healthPolicyTemplate = "" THEN Verdict(TRUE, "", "", NotBuilt)
    ELSE LET b == workloadDef_getTemplateContext(ctx, cli, namespace) IN
         IF b.err # "" THEN Verdict(FALSE, "", b.err, Called(b))
         ELSE LET h == checkHealth(b.root, healthPolicyTemplate) IN
              Verdict(h.healthy, "", h.err, Called(b))

workloadDef_Status(ctx, cli, namespace, customStatusTemplate) ==
    IF customStatusTemplate = "" THEN Verdict(FALSE, "", "", NotBuilt)
    ELSE LET b == workloadDef_getTemplateContext(ctx, cli, namespace) IN
         IF b.err # "" THEN Verdict(FALSE, "", b.err, Called(b))
         ELSE LET m == getStatusMessage(b.root, customStatusTemplate) IN
              Verdict(FALSE, m.message, m.err, Called(b))

traitDef_Status(name, ctx, cli, namespace, customStatusTemplate) ==
    IF customStatusTemplate = "" THEN Verdict(FALSE, "", "", NotBuilt)
    ELSE LET b == traitDef_getTemplateContext(name, ctx, cli, namespace) IN
         IF b.err # "" THEN Verdict(FALSE, "", b.err, Called(b))
         ELSE LET m == getStatusMessage(b.root, customStatusTemplate) IN
              Verdict(FALSE, m.message, m.err, Called(b))

traitDef_HealthCheck(name, ctx, cli, namespace, healthPolicyTemplate) ==
    IF healthPolicyTemplate = "" THEN Verdict(TRUE, "", "", NotBuilt)
    ELSE LET b == traitDef_getTemplateContext(name, ctx, cli, namespace) IN
         IF b.err # "" THEN Verdict(FALSE, "", b.err, Called(b))
         ELSE LET h == checkHealth(b.root, healthPolicyTemplate) IN
              Verdict(h.healthy, "", h.err, Called(b))

(***************************************************************************)
(* Inputs.                                                                 *)
(***************************************************************************)
U == Obj("Pod", "")
N == Obj("Pod", "x")
Py == Obj("", "y")

OutputValues == {Absent, Bad, U, N}
PatchValues == {Absent, Bad, Py}
FieldNames == {"", "a", "b"}
TraitNames == {"t", "u"}

\* unflagged fields that wrap, and all fields: unflagged (wrapping or not),
\* definition, hidden, optional
PlainFields == {FieldInfo(n, FALSE, FALSE, FALSE, U) : n \in FieldNames}
AllFields ==
    PlainFields
    \cup {FieldInfo(n, FALSE, FALSE, FALSE, Bad) : n \in FieldNames}
    \cup {FieldInfo(n, TRUE, FALSE, FALSE, U) : n \in FieldNames}
    \cup {FieldInfo(n, FALSE, TRUE, FALSE, U) : n \in FieldNames}
    \cup {FieldInfo(n, FALSE, FALSE, TRUE, U) : n \in FieldNames}

\* the structs of at most MaxFields fields of F, no field name twice
Structs(F) ==
    {Struct(fs) : fs \in {s \in UNION {[1..k -> F] : k \in 0..MaxFields} :
                             \A i, j \in DOMAIN s : s[i].Name = s[j].Name => i = j}}

Templates(F, P) ==
    {Template("build", "absent", U, NotStruct, Absent),
     Template("eval", "absent", U, NotStruct, Absent),
     Template("", "fail", Absent, NotStruct, Absent)}
    \cup {Template("", pr, out, outs, p) :
            pr \in P, out \in OutputValues,
            outs \in {NotStruct} \cup Structs(F), p \in PatchValues}

AllTemplates == Templates(AllFields, {"absent", "ok"})
PipelineTemplates == Templates(PlainFields, {"absent"})

\* a workload template has an `output`, and neither `processing` nor `patch`
\* is looked at
WorkloadTemplates(T) ==
    {t \in T : Exists(t.output) /\ t.processing = "absent" /\ t.patch = Absent}

HealthTemplates == {"", HealthTrue, HealthNameIsX}
StatusTemplates == {"", MessageOk, MessageName}

Common == commonLabelsOf(BaseContextLabels)
LiveW == LiveObject("Pod", "ns1", "x", (LabelOAMResourceType :> ResourceTypeWorkload) @@ Common)
LiveOA == LiveObject("Pod", "ns1", "oa",
                     (TraitTypeLabel :> AuxiliaryWorkload) @@ (TraitResource :> "a") @@ Common)
LiveOB == LiveObject("Pod", "ns1", "ob",
                     (TraitTypeLabel :> AuxiliaryWorkload) @@ (TraitResource :> "b") @@ Common)
LiveT0 == LiveObject("Pod", "ns1", "t0", (TraitTypeLabel :> "t") @@ Common)
LiveTA == LiveObject("Pod", "ns1", "ta",
                     (TraitTypeLabel :> "t") @@ (TraitResource :> "a") @@ Common)
LiveTB == LiveObject("Pod", "ns1", "tb",
                     (TraitTypeLabel :> "t") @@ (TraitResource :> "b") @@ Common)

PipelineClusters ==
    {Cluster(FALSE, <<>>), Cluster(TRUE, <<>>),
     Cluster(TRUE, <<LiveW, LiveOA, LiveOB, LiveT0, LiveTA, LiveTB>>),
     Cluster(TRUE, <<LiveW, LiveOB, LiveTA>>)}
PipelineNamespaces == {"ns1"}

\* the resolver's inputs
ResolveLabelSets == {EmptyMap, TraitTypeLabel :> "t"}
ResolveLabelMaps ==
    {EmptyMap, TraitTypeLabel :> "t",
     (TraitTypeLabel :> "t") @@ (TraitResource :> "a"),
     (TraitTypeLabel :> "t") @@ (TraitResource :> "b")}
ResolveObjects ==
    {LiveObject("Pod", "ns1", n, l) : n \in {"x", "y"}, l \in ResolveLabelMaps}
    \cup {LiveObject("Svc", "ns1", "x", (TraitTypeLabel :> "t") @@ (TraitResource :> "a")),
          LiveObject("Pod", "ns2", "x", (TraitTypeLabel :> "t") @@ (TraitResource :> "a"))}
ResolveClusters ==
    {Cluster(FALSE, <<>>)}
    \cup {Cluster(TRUE, s) :
            s \in {q \in UNION {[1..k -> ResolveObjects] : k \in 0..MaxObjs} :
                     \A i, j \in DOMAIN q :
                        (/\ q[i].kind = q[j].kind
                         /\ q[i].ns = q[j].ns
                         /\ q[i].name = q[j].name) => i = j}}
SymbolicObjects == {[kind |-> k, name |-> n] : k \in {"Pod", "Svc"}, n \in {"", "x"}}
ResolveNamespaces == {"ns1", "ns2"}
OutputsResourceNames == {"", "a", "b"}

(***************************************************************************)
(* The state machine.                                                      *)
(***************************************************************************)
Idle == [op |-> "idle", err |-> ""]

Init ==
    /\ base = NoBase
    /\ auxiliaries = <<>>
    /\ ret = Idle

\* Complete of a workload renderer; room bounds the Auxiliary list
WorkloadComplete(T, room) ==
    /\ ret.op = "idle"
    /\ \E tpl \in WorkloadTemplates(T) :
          /\ Len(auxiliaries) + Len(tpl.outputs.fields) <= room
          /\ LET r == workloadDef_Complete(Ctx(base, auxiliaries), tpl) IN
             /\ base' = r.ctx.base
             /\ auxiliaries' = r.ctx.auxiliaries
             /\ ret' = [op |-> "WorkloadComplete", name |-> "", tpl |-> tpl,
                        pre |-> Ctx(base, auxiliaries), err |-> r.err, k |-> r.k]

\* Complete of a trait renderer
TraitComplete(T, room) ==
    /\ ret.op = "idle"
    /\ \E name \in TraitNames, tpl \in T :
          /\ Len(auxiliaries) + Len(tpl.outputs.fields)
                + (IF Exists(tpl.output) THEN 1 ELSE 0) <= room
          /\ LET r == traitDef_Complete(name, Ctx(base, auxiliaries), tpl) IN
             /\ base' = r.ctx.base
             /\ auxiliaries' = r.ctx.auxiliaries
             /\ ret' = [op |-> "TraitComplete", name |-> name, tpl |-> tpl,
                        pre |-> Ctx(base, auxiliaries), err |-> r.err, k |-> r.k]

Checked(op, renderer, name, cli, namespace, tpl, out) ==
    [op |-> op, renderer |-> renderer, name |-> name, cli |-> cli, ns |-> namespace,
     tpl |-> tpl, pre |-> Ctx(base, auxiliaries), err |-> out.err, out |-> out]

WorkloadHealthCheck ==
    /\ ret.op = "idle"
    /\ \E cli \in PipelineClusters, namespace \in PipelineNamespaces, tpl \in HealthTemplates :
          ret' = Checked("HealthCheck", "workload", "", cli, namespace, tpl,
                         workloadDef_HealthCheck(Ctx(base, auxiliaries), cli, namespace, tpl))
    /\ UNCHANGED <<base, auxiliaries>>

WorkloadStatus ==
    /\ ret.op = "idle"
    /\ \E cli \in PipelineClusters, namespace \in PipelineNamespaces, tpl \in StatusTemplates :
          ret' = Checked("Status", "workload", "", cli, namespace, tpl,
                         workloadDef_Status(Ctx(base, auxiliaries), cli, namespace, tpl))
    /\ UNCHANGED <<base, auxiliaries>>

TraitHealthCheck ==
    /\ ret.op = "idle"
    /\ \E name \in TraitNames, cli \in PipelineClusters,
          namespace \in PipelineNamespaces, tpl \in HealthTemplates :
          ret' = Checked("HealthCheck", "trait", name, cli, namespace, tpl,
                         traitDef_HealthCheck(name, Ctx(base, auxiliaries), cli, namespace, tpl))
    /\ UNCHANGED <<base, auxiliaries>>

TraitStatus ==
    /\ ret.op = "idle"
    /\ \E name \in TraitNames, cli \in PipelineClusters,
          namespace \in PipelineNamespaces, tpl \in StatusTemplates :
          ret' = Checked("Status", "trait", name, cli, namespace, tpl,
                         traitDef_Status(name, Ctx(base, auxiliaries), cli, namespace, tpl))
    /\ UNCHANGED <<base, auxiliaries>>

\* the call returns to its caller; a panic does not return
Return ==
    /\ ret.op # "idle"
    /\ ret.err # "panic"
    /\ ret' = Idle
    /\ UNCHANGED <<base, auxiliaries>>

Next ==
    \/ WorkloadComplete(PipelineTemplates, MaxAux)
    \/ TraitComplete(PipelineTemplates, MaxAux)
    \/ WorkloadHealthCheck
    \/ WorkloadStatus
    \/ TraitHealthCheck
    \/ TraitStatus
    \/ Return

Spec == Init /\ [][Next]_vars

(***************************************************************************)
(* One Complete, over every template, from a context a pipeline reaches.   *)
(***************************************************************************)
PreContexts ==
    {Ctx(NoBase, <<>>),
     Ctx(N, <<Auxiliary(U, AuxiliaryWorkload, "a", TRUE)>>),
     Ctx(U, <<Auxiliary(N, "t", "", FALSE)>>)}

InitComplete ==
    /\ \E c \in PreContexts : base = c.base /\ auxiliaries = c.auxiliaries
    /\ ret = Idle

NextComplete ==
    \/ WorkloadComplete(AllTemplates, MaxAux + MaxFields + 1)
    \/ TraitComplete(AllTemplates, MaxAux + MaxFields + 1)

SpecComplete == InitComplete /\ [][NextComplete]_vars

(***************************************************************************)
(* getResourceFromObj alone, over the resolver's inputs.                   *)
(***************************************************************************)
Resolve ==
    /\ ret.op = "idle"
    /\ \E obj \in SymbolicObjects, cli \in ResolveClusters, namespace \in ResolveNamespaces,
          labels \in ResolveLabelSets, outputsResource \in OutputsResourceNames :
          LET r == getResourceFromObj(obj, cli, namespace, labels, outputsResource) IN
          ret' = [op |-> "Resolve", obj |-> obj, cli |-> cli, ns |-> namespace,
                  labels |-> labels, outputsResource |-> outputsResource,
                  err |-> r.err, res |-> r]
    /\ UNCHANGED <<base, auxiliaries>>

NextResolve == Resolve \/ Return

SpecResolve == Init /\ [][NextResolve]_vars

(***************************************************************************)
(* Properties.                                                             *)
(***************************************************************************)
IsCheck == ret.op \in {"HealthCheck", "Status"}
IsComplete == ret.op \in {"WorkloadComplete", "TraitComplete"}
Range(q) == {q[i] : i \in DOMAIN q}
Unflagged(f) == ~f.IsDefinition /\ ~f.IsHidden /\ ~f.IsOptional
\* the Auxiliaries the call in ret appended to the context it started from
Appended == SubSeq(auxiliaries, Len(ret.pre.auxiliaries) + 1, Len(auxiliaries))
KeepsOld == SubSeq(auxiliaries, 1, Len(ret.pre.auxiliaries)) = ret.pre.auxiliaries
\* the Auxiliaries whose resolved object a renderer assigns to root.outputs
Relevant(a) ==
    IF ret.renderer = "workload" THEN a.Type = AuxiliaryWorkload
    ELSE a.Type = ret.name /\ a.IsOutputs
\* the label set a renderer resolves an Auxiliary with
AssistLabels(a) ==
    [key \in {TraitTypeLabel, LabelAppName, LabelAppComponent} |->
        IF key = TraitTypeLabel
        THEN (IF ret.renderer = "workload" THEN AuxiliaryWorkload ELSE a.Type)
        ELSE IF key = LabelAppName THEN BaseContextLabels.appName
        ELSE BaseContextLabels.name]

\* C1: a HealthCheck or Status call with a non-empty template whose context
\* building processes an Auxiliary with IsOutputs = TRUE and an empty Name
\* fails with the configuration error, for the workload and the trait renderer.
C1_NamingInvariant ==
    (/\ IsCheck
     /\ ret.tpl # ""
     /\ \E i \in Range(ret.out.built.processed) :
           auxiliaries[i].IsOutputs /\ auxiliaries[i].Name = "")
    => ret.err = "config"

\* what the listing of a resolution selects with a given label selector
Candidates(selector) ==
    LET Selected(o) ==
            /\ o.kind = ret.obj.kind
            /\ o.ns = ret.ns
            /\ \A key \in DOMAIN selector : GetLabel(o, key) = selector[key] IN
    SelectSeq(ret.cli.items, Selected)
Unnamed == ret.op = "Resolve" /\ ret.obj.name = "" /\ ret.cli.ok

\* C2 as stated: without a concrete name the candidates are the live objects
\* of the kind and namespace that match labelSet alone, and a single
\* candidate is returned.
C2_ListsByLabelSetOnly ==
    Unnamed =>
        /\ ret.res.list = Candidates(ret.labels)
        /\ Len(Candidates(ret.labels)) = 1 =>
              ret.err = "" /\ ret.res.object = Candidates(ret.labels)[1]

\* C2 amended: without a concrete name the candidates are the live objects
\* of the kind and namespace that match labelSet and, when
\* outputsResourceName is not empty, also carry the trait-resource label
\* outputsResourceName; a single candidate is returned.
C2_ListsByQualifiedLabelSet ==
    Unnamed =>
        LET selector == IF ret.outputsResource = "" THEN ret.labels
                        ELSE [key \in DOMAIN ret.labels \cup {TraitResource} |->
                                 IF key = TraitResource THEN ret.outputsResource
                                 ELSE ret.labels[key]] IN
        /\ ret.res.listed
        /\ ret.res.list = Candidates(selector)
        /\ Len(Candidates(selector)) = 1 =>
              ret.err = "" /\ ret.res.object = Candidates(selector)[1]

\* a resolution with a non-empty outputsResourceName in a cluster that holds
\* one object matching labelSet without a trait-resource label: the object
\* is not a candidate and the call fails
C2_Witness ==
    /\ Unnamed
    /\ ret.outputsResource # ""
    /\ Len(Candidates(ret.labels)) = 1
    /\ GetLabel(Candidates(ret.labels)[1], TraitResource) = ""
    /\ ret.res.list = <<>>
    /\ ret.err = "no resources found"

\* C3: of the listed candidates, a single one is returned; of several, the
\* first in list order whose trait-resource label equals outputsResourceName;
\* with no candidate or no match the call fails with an error that carries
\* the group-version-kind and the label set.  With two live candidates of
\* the label set labelled "a" and "b", outputsResourceName "a" returns "a".
C3_AmbiguityResolution ==
    Unnamed =>
        LET list == ret.res.list
            Matches(i) == GetLabel(list[i], TraitResource) = ret.outputsResource IN
        /\ Len(list) = 1 => ret.err = "" /\ ret.res.object = list[1]
        /\ (Len(list) > 1 /\ \E i \in DOMAIN list : Matches(i)) =>
              /\ ret.err = ""
              /\ \E i \in DOMAIN list :
                    /\ Matches(i)
                    /\ \A j \in 1..(i - 1) : ~Matches(j)
                    /\ ret.res.object = list[i]
        /\ (Len(list) = 0 \/ (Len(list) > 1 /\ \A i \in DOMAIN list : ~Matches(i))) =>
              /\ ret.err = "no resources found"
              /\ ret.res.gvk = ret.obj.kind
              /\ \A key \in DOMAIN ret.labels : ret.res.labels[key] = ret.labels[key]
        /\ (/\ Len(Candidates(ret.labels)) = 2
            /\ {GetLabel(o, TraitResource) : o \in Range(Candidates(ret.labels))} = {"a", "b"}
            /\ ret.outputsResource = "a") =>
              ret.err = "" /\ GetLabel(ret.res.object, TraitResource) = "a"

\* several candidates are listed and the one returned is not the first listed
C3_Witness ==
    /\ Unnamed
    /\ Len(ret.res.list) = 2
    /\ ret.err = ""
    /\ ret.res.object = ret.res.list[2]
    /\ ret.res.object # ret.res.list[1]

\* C4: HealthCheck with an empty policy returns (true, nil) and Status with
\* an empty template ("", nil), for both renderers, whatever the context and
\* the cluster, without building the template context or reading the cluster.
C4_VacuousPass ==
    (IsCheck /\ ret.tpl = "") =>
        /\ ret.err = ""
        /\ ret.op = "HealthCheck" => ret.out.healthy
        /\ ret.op = "Status" => ret.out.message = ""
        /\ ~ret.out.built.called
        /\ ret.out.built.reads = 0
        /\ Ctx(base, auxiliaries) = ret.pre

\* a workload HealthCheck with an empty policy on a context without a Base,
\* against a cluster every read of which fails
C4_Witness ==
    /\ ret.op = "HealthCheck"
    /\ ret.renderer = "workload"
    /\ ret.tpl = ""
    /\ base = NoBase
    /\ ~ret.cli.ok
    /\ ret.out.healthy

\* C5: a successful Complete of a template with an `outputs` struct appends
\* one Auxiliary with IsOutputs = TRUE per unflagged field and none for a
\* field flagged definition, hidden or optional, in declaration order, with
\* the field's name and value and the renderer's Type.
C5_Filtering ==
    (IsComplete /\ ret.err = "" /\ ret.tpl.outputs.isStruct) =>
        LET IsOut(a) == a.IsOutputs
            got == SelectSeq(Appended, IsOut)
            want == SelectSeq(ret.tpl.outputs.fields, Unflagged) IN
        /\ KeepsOld
        /\ Len(got) = Len(want)
        /\ \A i \in DOMAIN want :
              got[i] = Auxiliary(want[i].Value,
                                 IF ret.op = "WorkloadComplete" THEN AuxiliaryWorkload
                                 ELSE ret.name,
                                 want[i].Name, TRUE)

\* a successful workload Complete of an `outputs` struct of a flagged field
\* followed by an unflagged one
C5_Witness ==
    /\ ret.op = "WorkloadComplete"
    /\ ret.err = ""
    /\ ret.tpl.outputs.isStruct
    /\ Len(ret.tpl.outputs.fields) = 2
    /\ ret.tpl.outputs.fields[1].IsOptional
    /\ Unflagged(ret.tpl.outputs.fields[2])
    /\ Len(Appended) = 1

\* C6: the one Base of a context is the `output` of the latest workload
\* Complete that got past evaluation and wrapping, changed since only by the
\* unification of a trait's `patch`; a trait's `output` is appended as
\* Auxiliary{Type: trait name, Name: "", IsOutputs: false} and is never made
\* the Base.
C6_BaseOwnership ==
    /\ base = NoBase \/ base.tag = "obj"
    /\ ret.op = "WorkloadComplete" =>
          base = IF ret.err \in {"build", "eval", "new base"} THEN ret.pre.base
                 ELSE ret.tpl.output
    /\ ret.op = "TraitComplete" =>
          /\ \/ base = ret.pre.base
             \/ /\ ret.pre.base # NoBase
                /\ ret.tpl.patch.tag = "obj"
                /\ ret.err = ""
                /\ base = Unify(ret.pre.base, ret.tpl.patch).ins
          /\ (ret.tpl.output.tag = "obj" /\ ret.tpl.err = "" /\ ret.tpl.processing # "fail") =>
                /\ Len(Appended) >= 1
                /\ Appended[1] = Auxiliary(ret.tpl.output, ret.name, "", FALSE)
    /\ IsCheck => base = ret.pre.base

\* a trait Complete with an `output` and a `patch` on a context with a Base:
\* the Base is the old one unified with the patch, not the trait's output
C6_Witness ==
    /\ ret.op = "TraitComplete"
    /\ ret.err = ""
    /\ ret.pre.base = U
    /\ ret.tpl.output = N
    /\ ret.tpl.patch = Py
    /\ base = Obj("Pod", "y")
    /\ Appended = <<Auxiliary(N, ret.name, "", FALSE)>>

\* C7: with a concrete resource name the resolver returns the stored fields
\* of the live object of that kind, namespace and name, whatever the label
\* set, outputsResourceName and the other objects are; without such an
\* object it fails with a not-found error and lists nothing.
C7_NamedResolution ==
    (ret.op = "Resolve" /\ ret.obj.name # "" /\ ret.cli.ok) =>
        LET named == {o \in Range(ret.cli.items) :
                         o.kind = ret.obj.kind /\ o.ns = ret.ns /\ o.name = ret.obj.name} IN
        /\ ~ret.res.listed
        /\ named # {} => ret.err = "" /\ ret.res.object \in named
        /\ named = {} => ret.err = "not found" /\ ret.res.object = NoObject

\* a named resolution that returns an object outside the label set while
\* another object of the cluster is inside it
C7_Witness ==
    /\ ret.op = "Resolve"
    /\ ret.obj.name # ""
    /\ ret.err = ""
    /\ ret.labels # EmptyMap
    /\ ~MatchingLabels(ret.res.object, ret.labels)
    /\ \E o \in Range(ret.cli.items) : MatchingLabels(o, ret.labels)

\* C8: a trait Complete whose template has a `patch`, on a context without a
\* Base, passes the patch step without an error and without a crash, leaves
\* the context without a Base and keeps the Auxiliaries it registered.
C8_PatchWithoutBaseIsNoOp ==
    (/\ ret.op = "TraitComplete"
     /\ ret.pre.base = NoBase
     /\ ret.tpl.err = ""
     /\ ret.tpl.processing # "fail"
     /\ ret.tpl.patch.tag = "obj"
     /\ ret.tpl.output.tag # "bad"
     /\ \A f \in Range(ret.tpl.outputs.fields) : f.Value.tag = "obj")
    => (/\ ret.err = ""
        /\ base = NoBase
        /\ Len(Appended) = Len(ret.tpl.outputs.fields)
                             + (IF Exists(ret.tpl.output) THEN 1 ELSE 0))

\* C9: when context building succeeds, root.outputs has exactly one key, the
\* Name of the last relevant Auxiliary of the context, mapped to the object
\* it resolved to; every relevant Auxiliary before it was resolved too.
C9_OutputsOverwrite ==
    (IsCheck /\ ret.out.built.called /\ ret.out.built.err = "") =>
        LET rel == {i \in DOMAIN auxiliaries : Relevant(auxiliaries[i])} IN
        /\ rel \subseteq Range(ret.out.built.processed)
        /\ rel = {} => ret.out.built.root.outputs = EmptyMap
        /\ rel # {} =>
              LET last == auxiliaries[CHOOSE i \in rel : \A j \in rel : j <= i]
                  r == getResourceFromObj(Unstructured(last.Ins), ret.cli, ret.ns,
                                          AssistLabels(last), last.Name) IN
              /\ DOMAIN ret.out.built.root.outputs = {last.Name}
              /\ ret.out.built.root.outputs[last.Name] = r.object
              /\ r.err = ""

\* a workload check over two auxiliaries named "a" and "b" that both
\* resolve: only "b" is in root.outputs
C9_Witness ==
    /\ IsCheck
    /\ ret.renderer = "workload"
    /\ ret.out.built.called
    /\ ret.out.built.err = ""
    /\ Len(auxiliaries) = 2
    /\ auxiliaries[1].Type = AuxiliaryWorkload /\ auxiliaries[1].Name = "a"
    /\ auxiliaries[2].Type = AuxiliaryWorkload /\ auxiliaries[2].Name = "b"
    /\ DOMAIN ret.out.built.root.outputs = {"b"}
    /\ ret.out.built.root.outputs["b"] = LiveOB

\* C10: a workload Complete that fails at evaluation or at wrapping `output`
\* leaves Base and Auxiliaries as they were; one that fails at wrapping the
\* k-th field of `outputs` has replaced the Base by the new `output` and has
\* appended the Auxiliaries of the unflagged fields before the k-th.
C10_NoRollback ==
    ret.op = "WorkloadComplete" =>
        /\ ret.err \in {"build", "eval", "new base"} => Ctx(base, auxiliaries) = ret.pre
        /\ ret.err = "outputs" =>
              LET fields == ret.tpl.outputs.fields
                  earlier == SelectSeq(SubSeq(fields, 1, ret.k - 1), Unflagged) IN
              /\ ret.k \in DOMAIN fields
              /\ Unflagged(fields[ret.k])
              /\ base = ret.tpl.output
              /\ KeepsOld
              /\ Len(Appended) = Len(earlier)
              /\ \A i \in DOMAIN earlier :
                    Appended[i] = Auxiliary(earlier[i].Value, AuxiliaryWorkload,
                                            earlier[i].Name, TRUE)

\* a workload Complete that failed at its second `outputs` field: the error
\* is returned, the Base is replaced and the first field's Auxiliary stays
C10_Witness ==
    /\ ret.op = "WorkloadComplete"
    /\ ret.err = "outputs"
    /\ ret.k = 2
    /\ base # ret.pre.base
    /\ ret.pre.base # NoBase
    /\ Len(Appended) = 1

====
